---- MODULE Spec2Model ----
(***************************************************************************)
(* Model of pkg/k8s/operations.go (litmusctl): the pre-flight validation   *)
(* and bootstrap operations of KubeClientFunctions.  One synchronous       *)
(* process calls the operations one after another; the cluster, the        *)
(* terminal, the manifest endpoint and the apply mechanism are the         *)
(* environment and answer nondeterministically from small sets.            *)
(*                                                                         *)
(* Texts whose characters matter (error messages, service-account names,   *)
(* standard error) are sequences of one-character strings.                 *)
(***************************************************************************)
EXTENDS Naturals, Sequences, FiniteSets, TLC

\* pc        position of the thread: "idle", a position inside ValidNs,
\*           WatchPod or ApplyYaml, or "exited"
\* fatalIn   the function whose os.Exit / log.Fatal ended the process
\* ret       what the last operation returned to its caller
\* env       the arguments of the last direct call and the answers it got
\* vns       the locals of ValidNs and the answers of its current cycle
\* wp        the watch of WatchPod: the events consumed, the stream's state
\* ay        the parameters and locals of ApplyYaml
\* cacheFile the content of chaos-delegate-manifest.yaml ("absent" at first)
\* flags     the names defined in the process-wide flag.CommandLine
\* twin      the same ValidNs call made in the other valid mode and given
\*           the same inputs and answers (its pc, fatalIn, ret and vns)
VARIABLES pc, fatalIn, ret, env, vns, wp, ay, cacheFile, flags, twin

vars == <<pc, fatalIn, ret, env, vns, wp, ay, cacheFile, flags, twin>>

(***************************************************************************)
(* Bounds of the model.                                                    *)
(***************************************************************************)
MaxPods   == 2    \* longest pod list the cluster answers with
MaxEvents == 3    \* most events one watch consumes
MaxErrLen == 3    \* longest standard-error text of the apply mechanism
MaxRejects == 3   \* rejected prompt cycles counted (the count saturates)

(***************************************************************************)
(* Error values.  An error carries the reason the API machinery attaches   *)
(* to it and its message text; Nil is Go's nil error.                      *)
(***************************************************************************)
Nil == [kind |-> "nil", msg |-> <<>>]

Error(kind, msg) == [kind |-> kind, msg |-> msg]

\* outcomes of ClientSet(kubeconfig)
ClientSetErrs == {Nil, Error("ClientConfig", <<"invalid configuration">>)}

\* errors of a cluster API round trip that are not "not found"
ApiErrs ==
  { Error("Forbidden", <<"forbidden">>),
    Error("Timeout", <<"i/o timeout">>) }

\* k8serror.IsNotFound: decided by the status reason of the error
IsNotFound(err) == err.kind = "NotFound"

(***************************************************************************)
(* NsExists                                                                *)
(***************************************************************************)
\* answers of Namespaces().Get: the object pointer (ns, non-nil or nil) and
\* the error.  A nil error always comes with an object.
NsGetAnswers ==
  { [ns |-> TRUE, err |-> Nil] }
    \cup { [ns |-> b, err |-> e] :
             b \in BOOLEAN,
             e \in ApiErrs \cup {Error("NotFound", <<"namespaces not found">>)} }

NsExists_ErrorSwallowed(clientErr, get) ==
  IF clientErr # Nil THEN [ok |-> FALSE, err |-> clientErr]
  ELSE IF get.err = Nil /\ get.ns THEN [ok |-> TRUE, err |-> Nil]
  ELSE [ok |-> FALSE, err |-> Nil]

NsExists(clientErr, get) ==
  IF clientErr # Nil THEN [ok |-> FALSE, err |-> clientErr]
  ELSE IF IsNotFound(get.err) THEN [ok |-> FALSE, err |-> Nil]
  ELSE IF get.err = Nil /\ get.ns THEN [ok |-> TRUE, err |-> Nil]
  ELSE [ok |-> FALSE, err |-> get.err]

(***************************************************************************)
(* CheckSAPermissions                                                      *)
(***************************************************************************)
\* answers of SelfSubjectAccessReviews().Create: an error, or a response
\* with Status.Allowed, Status.Reason and Status.EvaluationError
ReviewAnswers ==
  { [err |-> e, Allowed |-> FALSE, Reason |-> "", EvaluationError |-> ""] :
      e \in ApiErrs }
    \cup { [err |-> Nil, Allowed |-> TRUE, Reason |-> "", EvaluationError |-> ""] }
    \cup { [err |-> Nil, Allowed |-> FALSE, Reason |-> r, EvaluationError |-> ee] :
             r \in {"", "RBAC: not allowed"}, ee \in {"", "webhook failed"} }

CheckSAPermissions_DenialAsError(clientErr, review) ==
  IF clientErr # Nil THEN [ok |-> FALSE, err |-> clientErr]
  ELSE IF review.err # Nil THEN [ok |-> FALSE, err |-> review.err]
  ELSE IF ~review.Allowed /\ review.EvaluationError # ""
       THEN [ok |-> FALSE, err |-> Error("Evaluation", <<review.EvaluationError>>)]
  ELSE [ok |-> review.Allowed, err |-> Nil]

CheckSAPermissions(clientErr, review) ==
  IF clientErr # Nil THEN [ok |-> FALSE, err |-> clientErr]
  ELSE IF review.err # Nil THEN [ok |-> FALSE, err |-> review.err]
  ELSE [ok |-> review.Allowed, err |-> Nil]

(***************************************************************************)
(* podExists                                                               *)
(***************************************************************************)
PodPhases == {"Pending", "Running", "Failed"}

\* answers of Pods(ns).List by label selector: an error, or the listed pods
\* (their phases)
PodLists ==
  UNION { [1..n -> PodPhases] : n \in 0..MaxPods }

PodListAnswers ==
  { [err |-> e, Items |-> <<>>] : e \in ApiErrs }
    \cup { [err |-> Nil, Items |-> l] : l \in PodLists }

podExists_OnlyRunning(clientErr, list) ==
  IF clientErr # Nil THEN [fatal |-> TRUE, val |-> FALSE]
  ELSE IF list.err # Nil THEN [fatal |-> TRUE, val |-> FALSE]
  ELSE [fatal |-> FALSE,
        val |-> \E i \in 1..Len(list.Items) : list.Items[i] = "Running"]

\* log.Fatal ends the process: fatal is TRUE and no value is returned
podExists(clientErr, list) ==
  IF clientErr # Nil THEN [fatal |-> TRUE, val |-> FALSE]
  ELSE IF list.err # Nil THEN [fatal |-> TRUE, val |-> FALSE]
  ELSE IF Len(list.Items) >= 1 THEN [fatal |-> FALSE, val |-> TRUE]
  ELSE [fatal |-> FALSE, val |-> FALSE]

(***************************************************************************)
(* SAExists                                                                *)
(***************************************************************************)
\* service-account names the terminal can deliver (fmt.Scanln reads one
\* space-delimited token, whatever its characters)
SANames == { <<"s", "a">>, <<"a", "\"", "b">> }

\* fmt.Sprintf("serviceaccounts \"%s\" not found", params.Serviceaccount)
NotFoundMsg(Serviceaccount) ==
  <<"serviceaccounts", " ", "\"">> \o Serviceaccount \o <<"\"", " ", "not found">>

\* Go's %q of a text: the text in double quotes, with double quote and
\* backslash escaped by a backslash
RECURSIVE Escaped(_)
Escaped(s) ==
  IF s = <<>> THEN <<>>
  ELSE (IF Head(s) \in {"\"", "\\"} THEN <<"\\", Head(s)>> ELSE <<Head(s)>>)
         \o Escaped(Tail(s))

Quoted(s) == <<"\"">> \o Escaped(s) \o <<"\"">>

\* answers of ServiceAccounts(ns).Get for the name asked: found (Nil), the
\* registry's not-found status ("serviceaccounts %q not found"), the
\* not-found status the client builds from a bare 404, or another failure
SAGetAnswers(name) ==
  { Nil,
    Error("NotFound", <<"serviceaccounts", " ">> \o Quoted(name) \o <<" ", "not found">>),
    Error("NotFound", <<"the server could not find the requested resource">>) }
    \cup ApiErrs

SAExists(clientErr, newErr, Serviceaccount) ==
  IF clientErr # Nil THEN [fatal |-> TRUE, val |-> FALSE]
  ELSE IF newErr # Nil
       THEN IF newErr.msg = NotFoundMsg(Serviceaccount)
            THEN [fatal |-> FALSE, val |-> FALSE]
            ELSE [fatal |-> TRUE, val |-> FALSE]
  ELSE [fatal |-> FALSE, val |-> TRUE]

(***************************************************************************)
(* The process.  pc is the position of the one thread: "idle" between      *)
(* operations, a position inside ValidNs, WatchPod or ApplyYaml, or        *)
(* "exited" after os.Exit / log.Fatal (fatalIn names the function that     *)
(* ended the process).                                                     *)
(***************************************************************************)
NsNames == {"litmus", "ns1"}

\* what fmt.Scanln leaves in the variable: "" for an empty line
NsInputs == {""} \cup NsNames

SAInputs == {<<>>} \cup SANames

Modes == {"namespace", "cluster", "agent"}

Labels == {"app=chaos-delegate"}

\* utils.DefaultNs and utils.DefaultSA
DefaultNs == "litmus"

DefaultSA == <<"l", "i", "t", "m", "u", "s">>

NoRet == [op |-> "none"]

NoEnv == [op |-> "none"]

NoReview == [err |-> Nil, Allowed |-> FALSE, Reason |-> "", EvaluationError |-> ""]

\* the locals of ValidNs (mode, label, namespace, nsExists, ok, err, val) and
\* what the current prompt cycle has seen: the input read, the last query
\* made (asked), the pods listed (Items), the probe's client and review
\* answers; lastReject is why the previous cycle was rejected
NoGet == [ns |-> FALSE, err |-> Nil]

\* further: the client and lookup answers NsExists got (nsClientErr, get),
\* the failure of the pod list or of its client (listErr),
\* the namespace of the previous cycle (prev) and the number of cycles
\* rejected so far (rejects, counted up to MaxRejects)
NoVns ==
  [mode |-> "", label |-> "", input |-> "", namespace |-> "", nsExists |-> FALSE,
   ok |-> FALSE, err |-> Nil, asked |-> "none", Items |-> <<>>, val |-> FALSE,
   probeClientErr |-> Nil, review |-> NoReview, lastReject |-> "none",
   nsClientErr |-> Nil, get |-> NoGet, listErr |-> Nil, prev |-> "",
   rejects |-> 0]

NoTwin == [pc |-> "none"]

NoWp == [events |-> <<>>, stream |-> "none"]

NoAy == [op |-> "none"]

Init ==
  /\ pc = "idle"
  /\ fatalIn = ""
  /\ ret = NoRet
  /\ env = NoEnv
  /\ vns = NoVns
  /\ wp = NoWp
  /\ ay = NoAy
  /\ cacheFile = "absent"
  /\ flags = {}
  /\ twin = NoTwin

\* a new top-level call forgets what the previous one left
Fresh ==
  /\ vns' = NoVns
  /\ wp' = NoWp
  /\ ay' = NoAy
  /\ twin' = NoTwin

Exit(fn) ==
  /\ pc' = "exited"
  /\ fatalIn' = fn

(***************************************************************************)
(* Direct calls of the point queries                                       *)
(***************************************************************************)
NsExistsCall ==
  /\ pc = "idle"
  /\ \E namespace \in NsNames, c \in ClientSetErrs, g \in NsGetAnswers :
       LET r == NsExists(c, g) IN
         /\ env' = [op |-> "NsExists", namespace |-> namespace, clientErr |-> c, get |-> g]
         /\ ret' = [op |-> "NsExists", ok |-> r.ok, err |-> r.err]
  /\ Fresh
  /\ UNCHANGED <<pc, fatalIn, cacheFile, flags, twin>>

CheckSAPermissionsCall ==
  /\ pc = "idle"
  /\ \E namespace \in NsNames, c \in ClientSetErrs, rv \in ReviewAnswers :
       LET r == CheckSAPermissions(c, rv) IN
         /\ env' = [op |-> "CheckSAPermissions", namespace |-> namespace,
                    clientErr |-> c, review |-> rv]
         /\ ret' = [op |-> "CheckSAPermissions", ok |-> r.ok, err |-> r.err]
  /\ Fresh
  /\ UNCHANGED <<pc, fatalIn, cacheFile, flags, twin>>

podExistsCall ==
  /\ pc = "idle"
  /\ \E namespace \in NsNames, c \in ClientSetErrs, l \in PodListAnswers :
       LET r == podExists(c, l) IN
         /\ env' = [op |-> "podExists", namespace |-> namespace, clientErr |-> c,
                    list |-> l]
         /\ IF r.fatal
            THEN Exit("podExists") /\ ret' = NoRet
            ELSE /\ ret' = [op |-> "podExists", val |-> r.val]
                 /\ UNCHANGED <<pc, fatalIn>>
  /\ Fresh
  /\ UNCHANGED <<cacheFile, flags, twin>>

SAExistsCall ==
  /\ pc = "idle"
  /\ \E namespace \in NsNames, name \in SANames \cup {DefaultSA},
        c \in ClientSetErrs :
       \E g \in SAGetAnswers(name) :
         LET r == SAExists(c, g, name) IN
           /\ env' = [op |-> "SAExists", namespace |-> namespace, input |-> name,
                      Serviceaccount |-> name, clientErr |-> c, get |-> g]
           /\ IF r.fatal
              THEN Exit("SAExists") /\ ret' = NoRet
              ELSE /\ ret' = [op |-> "SAExists", val |-> r.val]
                   /\ UNCHANGED <<pc, fatalIn>>
  /\ Fresh
  /\ UNCHANGED <<cacheFile, flags, twin>>

(***************************************************************************)
(* ValidSA: one prompt, one existence check                                *)
(***************************************************************************)
ValidSA ==
  /\ pc = "idle"
  /\ \E namespace \in NsNames, input \in SAInputs, c \in ClientSetErrs :
       LET name == IF input = <<>> THEN DefaultSA ELSE input IN
         \E g \in SAGetAnswers(name) :
           LET r == SAExists(c, g, name) IN
             /\ env' = [op |-> "ValidSA", namespace |-> namespace, input |-> input,
                        Serviceaccount |-> name, clientErr |-> c, get |-> g]
             /\ IF r.fatal
                THEN Exit("SAExists") /\ ret' = NoRet
                ELSE /\ ret' = [op |-> "ValidSA", sa |-> name, exists |-> r.val]
                     /\ UNCHANGED <<pc, fatalIn>>
  /\ Fresh
  /\ UNCHANGED <<cacheFile, flags, twin>>

(***************************************************************************)
(* ValidNs: the prompt loop.  Positions: ValidNs_start (label start:),     *)
(* ValidNs_NsExists (line 165), ValidNs_podExists (line 171),              *)
(* ValidNs_CheckSAPermissions (line 179).                                  *)
(***************************************************************************)
\* the thread of a ValidNs call: its position, and what it has set
Run == [pc |-> pc, fatalIn |-> fatalIn, ret |-> ret, vns |-> vns]

Advance(run) ==
  /\ pc' = run.pc
  /\ fatalIn' = run.fatalIn
  /\ ret' = run.ret
  /\ vns' = run.vns

OtherMode(mode) == IF mode = "namespace" THEN "cluster" ELSE "namespace"

ValidNs_Entry(mode, label) ==
  [pc |-> "ValidNs_start", fatalIn |-> "", ret |-> NoRet,
   vns |-> [NoVns EXCEPT !.mode = mode, !.label = label]]

ValidNs_Call ==
  /\ pc = "idle"
  /\ \E mode \in Modes, label \in Labels :
       /\ Advance(ValidNs_Entry(mode, label))
       /\ twin' = IF mode \in {"namespace", "cluster"}
                  THEN ValidNs_Entry(OtherMode(mode), label)
                  ELSE NoTwin
  /\ env' = [op |-> "ValidNs"]
  /\ wp' = NoWp
  /\ ay' = NoAy
  /\ UNCHANGED <<cacheFile, flags>>

\* a step of the call in the other mode, when there is one
Twin(next) == IF twin = NoTwin THEN NoTwin ELSE next

ValidNs_Scan_Kept(old, input) == IF input = "" THEN old ELSE input

\* var namespace string; fmt.Scanln(&namespace): each pass of start: declares
\* the variable anew, empty; Scanln stores the name read and stores nothing
\* for an empty line
ValidNs_Scan(old, input) == IF input = "" THEN "" ELSE input

\* start: the locals are declared anew, the mode is checked, the name is
\* read and an empty name replaced by the default
ValidNs_PromptStep(run, input) ==
  IF run.vns.mode \notin {"namespace", "cluster"}
  THEN [run EXCEPT !.pc = "exited", !.fatalIn = "ValidNs"]
  ELSE LET namespace == ValidNs_Scan(run.vns.namespace, input) IN
         [run EXCEPT
            !.pc = "ValidNs_NsExists",
            !.vns = [NoVns EXCEPT
                       !.mode = run.vns.mode, !.label = run.vns.label,
                       !.lastReject = run.vns.lastReject,
                       !.rejects = run.vns.rejects,
                       !.prev = run.vns.namespace,
                       !.input = input,
                       !.namespace = IF namespace = "" THEN DefaultNs
                                     ELSE namespace]]

ValidNs_Prompt ==
  /\ pc = "ValidNs_start"
  /\ \E input \in NsInputs :
       /\ Advance(ValidNs_PromptStep(Run, input))
       /\ twin' = Twin(ValidNs_PromptStep(twin, input))
  /\ UNCHANGED <<env, wp, ay, cacheFile, flags>>

ValidNs_NsFailed_Ignored(r) == FALSE

\* if err != nil { ...; os.Exit(1) }
ValidNs_NsFailed(r) == r.err # Nil

ValidNs_Branch_ModeAware(mode, ok) ==
  IF ok THEN "ValidNs_podExists"
  ELSE IF mode = "namespace" THEN "ValidNs_start"
  ELSE "ValidNs_CheckSAPermissions"

\* if ok { podExists ... } else { CheckSAPermissions ... }
ValidNs_Branch(mode, ok) ==
  IF ok THEN "ValidNs_podExists" ELSE "ValidNs_CheckSAPermissions"

ValidNs_CheckNsStep(run, c, g) ==
  LET r == NsExists(c, g)
      v == [run.vns EXCEPT !.ok = r.ok, !.err = r.err, !.asked = "ns",
                           !.nsClientErr = c,
                           !.get = IF c = Nil THEN g ELSE NoGet]
  IN IF ValidNs_NsFailed(r)
     THEN [run EXCEPT !.pc = "exited", !.fatalIn = "ValidNs", !.vns = v]
     ELSE [run EXCEPT !.pc = ValidNs_Branch(run.vns.mode, r.ok), !.vns = v]

ValidNs_CheckNs ==
  /\ pc = "ValidNs_NsExists"
  /\ \E c \in ClientSetErrs, g \in NsGetAnswers :
       /\ Advance(ValidNs_CheckNsStep(Run, c, g))
       /\ twin' = Twin(ValidNs_CheckNsStep(twin, c, g))
  /\ UNCHANGED <<env, wp, ay, cacheFile, flags>>

ValidNs_Return_AlwaysExisting(namespace, nsExists) ==
  [op |-> "ValidNs", namespace |-> namespace, nsExists |-> TRUE]

\* return namespace, nsExists
ValidNs_Return(namespace, nsExists) ==
  [op |-> "ValidNs", namespace |-> namespace, nsExists |-> nsExists]

ValidNs_Reject_FallThrough == "idle"

ValidNs_Reject_Exit == "exited"

\* goto start
ValidNs_Reject == "ValidNs_start"

\* one more rejected cycle
Rejected(v, why) ==
  [v EXCEPT !.lastReject = why,
            !.rejects = IF @ < MaxRejects THEN @ + 1 ELSE @]

ValidNs_CheckPodStep(run, c, l) ==
  LET r == podExists(c, l)
      v == [run.vns EXCEPT
              !.asked = "pod",
              !.Items = IF c = Nil /\ l.err = Nil THEN l.Items ELSE <<>>,
              !.listErr = IF c # Nil THEN c ELSE l.err,
              !.val = r.val,
              !.nsExists = ~r.fatal /\ ~r.val]
  IN IF r.fatal
     THEN [run EXCEPT !.pc = "exited", !.fatalIn = "podExists", !.vns = v]
     ELSE IF r.val
     THEN [run EXCEPT !.pc = ValidNs_Reject, !.vns = Rejected(v, "pod")]
     ELSE [run EXCEPT !.pc = "idle", !.vns = v,
                      !.ret = ValidNs_Return(run.vns.namespace, TRUE)]

ValidNs_CheckPod ==
  /\ pc = "ValidNs_podExists"
  /\ \E c \in ClientSetErrs, l \in PodListAnswers :
       /\ Advance(ValidNs_CheckPodStep(Run, c, l))
       /\ twin' = Twin(ValidNs_CheckPodStep(twin, c, l))
  /\ UNCHANGED <<env, wp, ay, cacheFile, flags>>

ValidNs_NoProbe(r) == TRUE

ValidNs_Allowed_UnlessFailed(r) == r.ok \/ r.err # Nil

ValidNs_Allowed_Never(r) == FALSE

\* val, _ := CheckSAPermissions({"create", "namespace", false, namespace});
\* the error is dropped and only val decides
ValidNs_Allowed(r) == r.ok

ValidNs_CheckPermStep(run, c, rv) ==
  LET r == CheckSAPermissions(c, rv)
      v == [run.vns EXCEPT
              !.asked = "perm", !.val = r.ok,
              !.probeClientErr = c,
              !.review = IF c = Nil THEN rv ELSE NoReview]
  IN IF ~ValidNs_Allowed(r)
     THEN [run EXCEPT !.pc = ValidNs_Reject, !.vns = Rejected(v, "perm")]
     ELSE [run EXCEPT !.pc = "idle", !.vns = v,
                      !.ret = ValidNs_Return(run.vns.namespace, FALSE)]

ValidNs_CheckPerm ==
  /\ pc = "ValidNs_CheckSAPermissions"
  /\ \E c \in ClientSetErrs, rv \in ReviewAnswers :
       /\ Advance(ValidNs_CheckPermStep(Run, c, rv))
       /\ twin' = Twin(ValidNs_CheckPermStep(twin, c, rv))
  /\ UNCHANGED <<env, wp, ay, cacheFile, flags>>

(***************************************************************************)
(* WatchPod                                                                *)
(***************************************************************************)
\* events of the watch: pod objects of any event type and phase, and the
\* error event, whose object is a status and not a pod
WatchEvents ==
  { [Type |-> t, isPod |-> TRUE, Phase |-> ph] :
      t \in {"ADDED", "MODIFIED", "DELETED"}, ph \in PodPhases }
    \cup { [Type |-> "ERROR", isPod |-> FALSE, Phase |-> ""] }

\* ClientSet and Pods(ns).Watch: a failure of either is fatal
WatchPod_Call ==
  /\ pc = "idle"
  /\ \E c \in ClientSetErrs, w \in {Nil} \cup ApiErrs :
       /\ env' = [op |-> "WatchPod", clientErr |-> c, watchErr |-> w]
       /\ IF c # Nil \/ w # Nil
          THEN /\ Exit("WatchPod")
               /\ wp' = NoWp
          ELSE /\ pc' = "WatchPod_loop"
               /\ wp' = [events |-> <<>>, stream |-> "open"]
               /\ UNCHANGED fatalIn
  /\ ret' = NoRet
  /\ vns' = NoVns
  /\ ay' = NoAy
  /\ twin' = NoTwin
  /\ UNCHANGED <<cacheFile, flags>>

WatchPod_IsPod_Any(event) == TRUE

\* p, ok := event.Object.(*corev1.Pod)
WatchPod_IsPod(event) == event.isPod

WatchPod_IsRunning_Added(event) == event.Type = "ADDED" /\ event.Phase = "Running"

WatchPod_IsRunning_NotDeleted(event) ==
  event.Type # "DELETED" /\ event.Phase = "Running"

WatchPod_IsRunning(event) == event.Phase = "Running"

\* what the loop body does with one event: log.Fatal, watch.Stop, or nothing
WatchPod_Outcome(event) ==
  IF ~WatchPod_IsPod(event) THEN "fatal"
  ELSE IF WatchPod_IsRunning(event) THEN "stop"
  ELSE "next"

\* one iteration of the range loop over watch.ResultChan()
WatchPod_Receive ==
  /\ pc = "WatchPod_loop"
  /\ wp.stream = "open"
  /\ Len(wp.events) < MaxEvents
  /\ \E event \in WatchEvents :
       LET outcome == WatchPod_Outcome(event) IN
         IF outcome = "fatal"
         THEN /\ Exit("WatchPod")
              /\ wp' = [wp EXCEPT !.events = Append(@, event)]
              /\ UNCHANGED ret
         ELSE IF outcome = "stop"
         THEN /\ wp' = [events |-> Append(wp.events, event), stream |-> "stopped"]
              /\ pc' = "idle"
              /\ ret' = [op |-> "WatchPod"]
              /\ UNCHANGED fatalIn
         ELSE /\ wp' = [wp EXCEPT !.events = Append(@, event)]
              /\ UNCHANGED <<pc, fatalIn, ret>>
  /\ UNCHANGED <<env, vns, ay, cacheFile, flags, twin>>

\* the server closes the stream: the channel is closed and the loop ends
WatchPod_Closed ==
  /\ pc = "WatchPod_loop"
  /\ wp.stream = "open"
  /\ wp' = [wp EXCEPT !.stream = "closed"]
  /\ pc' = "idle"
  /\ ret' = [op |-> "WatchPod"]
  /\ UNCHANGED <<fatalIn, env, vns, ay, cacheFile, flags, twin>>

(***************************************************************************)
(* ApplyYaml.  Positions: ApplyYaml_fetch (lines 299-312),                 *)
(* ApplyYaml_write (line 313), ApplyYaml_apply (lines 320-346).            *)
(***************************************************************************)
\* the fixed cache file name; a path is a sequence of its parts
CacheFile == <<"chaos-delegate-manifest.yaml">>

Tokens == {"tok123"}

Endpoints == {"https://cc.example"}

YamlPaths == {"manifests", "local.yaml"}

Kubeconfigs == {"", "kc"}

\* response bodies the endpoint serves
Bodies == {"B1", "B2"}

\* fmt.Sprintf("%s/%s/%s.yaml", params.Endpoint, params.YamlPath, params.Token)
Url(params) ==
  <<params.Endpoint, "/", params.YamlPath, "/", params.Token, ".yaml">>

\* what the apply mechanism reads at a path: the cache file, or a file this
\* program never writes
FileAt(path) == IF path = CacheFile THEN cacheFile ELSE "a local file"

\* args of exec.Command
Args(path, kubeconfig) ==
  IF kubeconfig # ""
  THEN <<"kubectl", "apply", "-f", path, "--kubeconfig", kubeconfig>>
  ELSE <<"kubectl", "apply", "-f", path>>

\* characters of the standard-error text
ErrChars == {"x", "%"}

Stderrs == UNION { [1..n -> ErrChars] : n \in 0..MaxErrLen }

Stdouts == { <<>>, <<"o", "k">> }

\* errors of cmd.Run
RunErrs ==
  { Error("ExitError", <<"exit status 1">>),
    Error("ExecError", <<"executable file not found in $PATH">>) }

\* fmt.Errorf(errStr): errStr is the FORMAT, and there are no operands.
\* A character other than % is copied; %% gives %; % followed by another
\* character c gives %!c(MISSING); % at the end gives %!(NOVERB).
\* (Over ErrChars no flag, width or precision character occurs.)
RECURSIVE Errorf(_)
Errorf(format) ==
  IF format = <<>> THEN <<>>
  ELSE IF Head(format) # "%" THEN <<Head(format)>> \o Errorf(Tail(format))
  ELSE IF Len(format) = 1 THEN <<"%!(NOVERB)">>
  ELSE IF format[2] = "%" THEN <<"%">> \o Errorf(SubSeq(format, 3, Len(format)))
  ELSE <<"%!", format[2], "(MISSING)">> \o Errorf(SubSeq(format, 3, Len(format)))

NoRun == [err |-> Nil, stdout |-> <<>>, stderr |-> <<>>]

NoResp == [status |-> 0, body |-> ""]

ApplyYaml_Call ==
  /\ pc = "idle"
  /\ \E Token \in Tokens, Endpoint \in Endpoints, YamlPath \in YamlPaths,
        kubeconfig \in Kubeconfigs, isLocal \in BOOLEAN :
       LET params == [Token |-> Token, Endpoint |-> Endpoint, YamlPath |-> YamlPath] IN
         /\ ay' = [op |-> "ApplyYaml", params |-> params, kubeconfig |-> kubeconfig,
                   isLocal |-> isLocal,
                   path |-> IF isLocal THEN <<YamlPath>> ELSE Url(params),
                   before |-> cacheFile,
                   fetch |-> "none", resp |-> NoResp, resp_body |-> "",
                   written |-> FALSE, invoked |-> FALSE, args |-> <<>>,
                   applied |-> "", run |-> NoRun]
         /\ pc' = IF isLocal THEN "ApplyYaml_apply" ELSE "ApplyYaml_fetch"
  /\ ret' = NoRet
  /\ env' = [op |-> "ApplyYaml"]
  /\ vns' = NoVns
  /\ wp' = NoWp
  /\ twin' = NoTwin
  /\ UNCHANGED <<fatalIn, cacheFile, flags>>

ApplyYaml_Failed(err) == [op |-> "ApplyYaml", output |-> <<>>, err |-> err]

\* http.NewRequest, http.DefaultClient.Do, ioutil.ReadAll.  Do reports an
\* error only when no response arrives: a response of any status is a
\* response, and its body is read.
ApplyYaml_Fetch ==
  /\ pc = "ApplyYaml_fetch"
  /\ \/ \E e \in { Error("NewRequest", <<"invalid URL">>),
                   Error("Do", <<"connection refused">>),
                   Error("ReadAll", <<"unexpected EOF">>) } :
          /\ ay' = [ay EXCEPT !.fetch = e.kind]
          /\ pc' = "idle"
          /\ ret' = ApplyYaml_Failed(e)
     \/ \E status \in {200, 404}, body \in Bodies :
          /\ ay' = [ay EXCEPT !.fetch = "ok",
                              !.resp = [status |-> status, body |-> body],
                              !.resp_body = body]
          /\ pc' = "ApplyYaml_write"
          /\ UNCHANGED ret
  /\ UNCHANGED <<fatalIn, env, vns, wp, cacheFile, flags, twin>>

ApplyYaml_Write_Append(old, resp_body) ==
  IF old = "absent" THEN resp_body ELSE "old and new"

\* ioutil.WriteFile(name, resp_body, 0644) truncates and writes; a failed
\* write leaves the old file, or an emptied one
ApplyYaml_Write(old, resp_body) == resp_body

\* path = "chaos-delegate-manifest.yaml"
ApplyYaml_CachePath(ayv) == CacheFile

ApplyYaml_WriteFile ==
  /\ pc = "ApplyYaml_write"
  /\ \/ /\ cacheFile' = ApplyYaml_Write(cacheFile, ay.resp_body)
        /\ ay' = [ay EXCEPT !.written = TRUE, !.path = ApplyYaml_CachePath(ay)]
        /\ pc' = "ApplyYaml_apply"
        /\ UNCHANGED ret
     \/ /\ cacheFile' \in {cacheFile, ""}
        /\ UNCHANGED ay
        /\ pc' = "idle"
        /\ ret' = ApplyYaml_Failed(Error("WriteFile", <<"permission denied">>))
  /\ UNCHANGED <<fatalIn, env, vns, wp, flags, twin>>

\* lines 335-346: the classification of the run's outcome
ApplyYaml_Classify(run) ==
  IF run.err # Nil
  THEN IF run.stderr # <<>>
       THEN [op |-> "ApplyYaml", output |-> <<>>,
             err |-> Error("Errorf", Errorf(run.stderr))]
       ELSE [op |-> "ApplyYaml", output |-> <<>>, err |-> run.err]
  ELSE [op |-> "ApplyYaml", output |-> run.stdout, err |-> Nil]

ApplyYaml_Apply ==
  /\ pc = "ApplyYaml_apply"
  /\ \E e \in {Nil} \cup RunErrs, out \in Stdouts, errText \in Stderrs :
       LET run == [err |-> e, stdout |-> out, stderr |-> errText] IN
         /\ ay' = [ay EXCEPT !.invoked = TRUE,
                             !.args = Args(ay.path, ay.kubeconfig),
                             !.applied = FileAt(ay.path),
                             !.run = run]
         /\ ret' = ApplyYaml_Classify(run)
  /\ pc' = "idle"
  /\ UNCHANGED <<fatalIn, env, vns, wp, cacheFile, flags, twin>>

(***************************************************************************)
(* GetConfigMap                                                            *)
(***************************************************************************)
\* answers of ConfigMaps(ns).Get: an error, or the config map's Data
CmGetAnswers ==
  { [err |-> e, Data |-> "nil"] :
      e \in ApiErrs \cup {Error("NotFound", <<"configmaps not found">>)} }
    \cup { [err |-> Nil, Data |-> d] : d \in {"data1", "data2"} }

\* flag.String(name, ...) on flag.CommandLine: defining a name that is
\* already defined panics ("flag redefined: configmap")
FlagRedefined(defined, name) == name \in defined

\* lines 360-369
GetConfigMap_Result(clientErr, get) ==
  IF clientErr # Nil THEN [op |-> "GetConfigMap", Data |-> "nil", err |-> clientErr]
  ELSE IF get.err # Nil THEN [op |-> "GetConfigMap", Data |-> "nil", err |-> get.err]
  ELSE [op |-> "GetConfigMap", Data |-> get.Data, err |-> Nil]

\* parseOk: whether flag.Parse accepts the process's command line; the
\* command line's flag set exits the process on an argument it rejects
\* (flag.ExitOnError), e.g. a leading flag that only the CLI's own parser
\* knows.  The panic of flag.String comes before flag.Parse is reached.
GetConfigMap ==
  /\ pc = "idle"
  /\ \/ /\ FlagRedefined(flags, "configmap")
        /\ env' = [op |-> "GetConfigMap", redefined |-> TRUE, parseOk |-> TRUE]
        /\ pc' = "panicked"
        /\ fatalIn' = "GetConfigMap"
        /\ ret' = NoRet
        /\ UNCHANGED flags
     \/ /\ ~FlagRedefined(flags, "configmap")
        /\ flags' = flags \cup {"configmap"}
        /\ \/ /\ env' = [op |-> "GetConfigMap", redefined |-> FALSE, parseOk |-> FALSE]
              /\ Exit("GetConfigMap")
              /\ ret' = NoRet
           \/ \E c \in ClientSetErrs, g \in CmGetAnswers :
                /\ env' = [op |-> "GetConfigMap", redefined |-> FALSE, parseOk |-> TRUE,
                           clientErr |-> c, get |-> g]
                /\ ret' = GetConfigMap_Result(c, g)
                /\ UNCHANGED <<pc, fatalIn>>
  /\ Fresh
  /\ UNCHANGED cacheFile

(***************************************************************************)
(* The specification                                                       *)
(***************************************************************************)
Next ==
  \/ NsExistsCall
  \/ CheckSAPermissionsCall
  \/ podExistsCall
  \/ SAExistsCall
  \/ ValidSA
  \/ ValidNs_Call
  \/ ValidNs_Prompt
  \/ ValidNs_CheckNs
  \/ ValidNs_CheckPod
  \/ ValidNs_CheckPerm
  \/ WatchPod_Call
  \/ WatchPod_Receive
  \/ WatchPod_Closed
  \/ ApplyYaml_Call
  \/ ApplyYaml_Fetch
  \/ ApplyYaml_WriteFile
  \/ ApplyYaml_Apply
  \/ GetConfigMap

Spec == Init /\ [][Next]_vars

\* The thread of ValidNs keeps running: the terminal delivers a line to
\* every prompt and every cluster call comes back.
FairSpec ==
  /\ Spec
  /\ WF_vars(ValidNs_Prompt)
  /\ WF_vars(ValidNs_CheckNs)
  /\ WF_vars(ValidNs_CheckPod)
  /\ WF_vars(ValidNs_CheckPerm)

(***************************************************************************)
(* Properties of ValidNs                                                   *)
(***************************************************************************)
\* ValidNs has returned, and vns still holds its final prompt cycle
Returned == pc = "idle" /\ ret.op = "ValidNs"

\* the create/namespace probe of the cycle was answered, and with allowed
ProbeAllowed(v) ==
  /\ v.asked = "perm"
  /\ v.probeClientErr = Nil
  /\ v.review.err = Nil
  /\ v.review.Allowed

\* NsExists answered false (without error) in the cycle
NsAnsweredFalse(v) == v.asked # "none" /\ ~v.ok /\ v.err = Nil

\* NsExists answered true in the cycle
NsAnsweredTrue(v) == v.asked # "none" /\ v.ok /\ v.err = Nil

\* C1: ValidNs never returns a namespace N from a prompt cycle in which
\* NsExists(N) answered false and the create/namespace probe did not answer
\* allowed (denied, or failed with an error).
C1_NoUncreatableNamespace ==
  Returned =>
    /\ ret.namespace = vns.namespace
    /\ ~(NsAnsweredFalse(vns) /\ ~ProbeAllowed(vns))

\* a cycle in which NsExists answered false and the probe did not allow has
\* ended, and nothing was returned
C1_Witness ==
  /\ pc = "ValidNs_start"
  /\ NsAnsweredFalse(vns)
  /\ vns.asked = "perm"
  /\ ~ProbeAllowed(vns)
  /\ ret = NoRet

\* C2: ValidNs never returns a namespace whose pod list by the delegate label
\* was non-empty when it was checked, whatever the phases of the listed pods;
\* the permission probe is not consulted in such a cycle.
C2_NoOccupiedNamespace ==
  /\ Returned => ~(vns.asked = "pod" /\ Len(vns.Items) >= 1)
  /\ (vns.asked = "pod" /\ Len(vns.Items) >= 1) =>
       /\ pc \in {"ValidNs_start", "ValidNs_NsExists"}
       /\ ret = NoRet

\* a cycle that listed only pods that are not running was rejected
C2_Witness ==
  /\ pc = "ValidNs_start"
  /\ vns.asked = "pod"
  /\ Len(vns.Items) >= 1
  /\ \A i \in 1..Len(vns.Items) : vns.Items[i] = "Failed"
  /\ ret = NoRet

\* C3: whenever ValidNs returns (N, existed): existed is true exactly when in
\* the final cycle NsExists(N) answered true and no delegate-labeled pod was
\* listed; existed is false exactly when NsExists(N) answered false and the
\* probe answered allowed; nothing else leads to a return.
C3_ExistedFlag ==
  Returned =>
    /\ ret.namespace = vns.namespace
    /\ ret.nsExists <=>
         (NsAnsweredTrue(vns) /\ vns.asked = "pod" /\ vns.Items = <<>>)
    /\ ~ret.nsExists <=> (NsAnsweredFalse(vns) /\ ProbeAllowed(vns))

\* the default namespace does not exist and may be created: ("litmus", false)
C3_Witness ==
  /\ Returned
  /\ vns.input = ""
  /\ ret.namespace = "litmus"
  /\ ~ret.nsExists
  /\ ProbeAllowed(vns)

\* the step rejects: it lists a delegate-labeled pod in an existing
\* namespace, or gets no allowance to create a nonexistent one
Rejects ==
  \/ pc = "ValidNs_podExists" /\ vns'.asked = "pod" /\ Len(vns'.Items) >= 1
  \/ pc = "ValidNs_CheckSAPermissions" /\ vns'.asked = "perm" /\ ~ProbeAllowed(vns')

\* C4: every rejection in ValidNs is followed by a new prompt cycle: the
\* rejecting step neither returns nor terminates the process, and the step
\* after it is again the prompt for a namespace name.
C4_RejectionReprompts ==
  /\ [][Rejects => (pc' = "ValidNs_start" /\ ret' = NoRet /\ fatalIn' = "")]_vars
  /\ [][(pc = "ValidNs_start" /\ vns.lastReject # "none")
          => (pc' = "ValidNs_NsExists" /\ vns'.asked = "none" /\ ret' = NoRet)]_vars

\* a rejection has happened and the next name has been read
C4_Witness ==
  /\ pc = "ValidNs_NsExists"
  /\ vns.lastReject = "pod"
  /\ vns.asked = "none"

(***************************************************************************)
(* Properties of ApplyYaml                                                 *)
(***************************************************************************)
\* ApplyYaml has run the apply mechanism and returned
Applied == ret.op = "ApplyYaml" /\ ay.op = "ApplyYaml" /\ ay.invoked

\* C5: ApplyYaml classifies the outcome of the apply mechanism: a failed run
\* with non-empty stderr S gives empty output and an error whose message is
\* exactly S; a failed run with empty stderr gives empty output and the
\* execution error; a successful run gives the stdout text and no error.
C5_ApplyClassification ==
  Applied =>
    /\ (ay.run.err # Nil /\ ay.run.stderr # <<>>) =>
         (ret.output = <<>> /\ ret.err # Nil /\ ret.err.msg = ay.run.stderr)
    /\ (ay.run.err # Nil /\ ay.run.stderr = <<>>) =>
         (ret.output = <<>> /\ ret.err = ay.run.err)
    /\ ay.run.err = Nil => (ret.output = ay.run.stdout /\ ret.err = Nil)

\* C6: in a non-local call the cache file holds exactly the fetched body,
\* whatever earlier calls wrote, before the apply mechanism is invoked, and
\* the invocation is given the cache file path, not the URL and not
\* params.YamlPath.
C6_CacheFileApplied ==
  /\ (pc = "ApplyYaml_apply" /\ ~ay.isLocal) =>
       (ay.written /\ cacheFile = ay.resp.body /\ ay.path = CacheFile)
  /\ (ay.op = "ApplyYaml" /\ ay.invoked /\ ~ay.isLocal) =>
       /\ ay.fetch = "ok"
       /\ ay.written
       /\ ay.applied = ay.resp.body
       /\ cacheFile = ay.resp.body
       /\ ay.args[4] = CacheFile
       /\ ay.args[4] # Url(ay.params)
       /\ ay.args[4] # <<ay.params.YamlPath>>

\* a second non-local call replaced the body the first one had cached
C6_Witness ==
  /\ Applied
  /\ ~ay.isLocal
  /\ ay.before = "B1"
  /\ ay.resp.body = "B2"
  /\ ay.applied = "B2"

(***************************************************************************)
(* Properties of WatchPod                                                  *)
(***************************************************************************)
\* the i-th consumed event is a pod in phase Running
RunningAt(i) == wp.events[i].isPod /\ wp.events[i].Phase = "Running"

\* C7: WatchPod returns normally if and only if it has consumed an event
\* whose pod phase is Running or the stream has been closed; the first
\* Running event stops the stream and is the last event consumed; while the
\* stream is open and no Running event has arrived it has not returned; the
\* caller gets the same (empty) result after closure as after Running.
C7_WatchPodReturns ==
  /\ (pc = "idle" /\ ret.op = "WatchPod") =>
       /\ \/ wp.stream = "closed"
          \/ Len(wp.events) >= 1 /\ RunningAt(Len(wp.events))
       /\ ret = [op |-> "WatchPod"]
  /\ \A i \in 1..Len(wp.events) :
       RunningAt(i) =>
         /\ i = Len(wp.events)
         /\ wp.stream = "stopped"
         /\ pc = "idle" /\ ret.op = "WatchPod"
  /\ wp.stream = "closed" => (pc = "idle" /\ ret.op = "WatchPod")
  /\ pc = "WatchPod_loop" =>
       /\ wp.stream = "open"
       /\ ret = NoRet
       /\ \A i \in 1..Len(wp.events) : ~RunningAt(i)

\* the stream was closed after events none of which was Running, and
\* WatchPod returned
C7_Witness ==
  /\ pc = "idle"
  /\ ret.op = "WatchPod"
  /\ wp.stream = "closed"
  /\ Len(wp.events) >= 1
  /\ \A i \in 1..Len(wp.events) : ~RunningAt(i)

(***************************************************************************)
(* Properties of the point queries                                         *)
(***************************************************************************)
\* C8: NsExists returns (false, no error) when the cluster API reports the
\* namespace as not found, (true, no error) when the lookup succeeds, and
\* (false, error) for every other lookup failure and for a client
\* construction failure; never true with an error, never a transport or auth
\* error as (false, no error).
C8_NsExistsResult ==
  env.op = "NsExists" =>
    /\ env.clientErr # Nil => (~ret.ok /\ ret.err = env.clientErr)
    /\ (env.clientErr = Nil /\ env.get.err.kind = "NotFound") =>
         (~ret.ok /\ ret.err = Nil)
    /\ (env.clientErr = Nil /\ env.get.err = Nil) => (ret.ok /\ ret.err = Nil)
    /\ (env.clientErr = Nil /\ env.get.err \in ApiErrs) =>
         (~ret.ok /\ ret.err = env.get.err)
    /\ ~(ret.ok /\ ret.err # Nil)

\* a not-found answer came back as (false, no error)
C8_Witness ==
  /\ env.op = "NsExists"
  /\ env.clientErr = Nil
  /\ env.get.err.kind = "NotFound"
  /\ ~ret.ok
  /\ ret.err = Nil

\* C9: CheckSAPermissions returns (false, error) when the client cannot be
\* built or the self-access-review call fails, and otherwise (allowed, no
\* error) with the server's decision; a denial, with or without a reason or
\* an evaluation error, is never returned as an error.
C9_CheckSAPermissionsResult ==
  env.op = "CheckSAPermissions" =>
    /\ env.clientErr # Nil => (~ret.ok /\ ret.err = env.clientErr)
    /\ (env.clientErr = Nil /\ env.review.err # Nil) =>
         (~ret.ok /\ ret.err = env.review.err)
    /\ (env.clientErr = Nil /\ env.review.err = Nil) =>
         (ret.ok = env.review.Allowed /\ ret.err = Nil)

\* a denial with a reason and an evaluation error came back without error
C9_Witness ==
  /\ env.op = "CheckSAPermissions"
  /\ env.clientErr = Nil
  /\ env.review.err = Nil
  /\ ~env.review.Allowed
  /\ env.review.Reason # ""
  /\ env.review.EvaluationError # ""
  /\ ret = [op |-> "CheckSAPermissions", ok |-> FALSE, err |-> Nil]

\* C10: SAExists returns false when the service account is absent (a
\* not-found answer of the cluster API), true when the lookup succeeds, and
\* terminates the process on every other lookup error and on client
\* construction failure; absence is never treated as an error and no other
\* error becomes a false result.
C10_SAExistsResult ==
  env.op = "SAExists" =>
    /\ env.clientErr # Nil => (pc = "exited" /\ fatalIn = "SAExists")
    /\ (env.clientErr = Nil /\ env.get = Nil) =>
         (pc = "idle" /\ ret = [op |-> "SAExists", val |-> TRUE])
    /\ (env.clientErr = Nil /\ IsNotFound(env.get)) =>
         (pc = "idle" /\ ret = [op |-> "SAExists", val |-> FALSE])
    /\ (env.clientErr = Nil /\ env.get \in ApiErrs) =>
         (pc = "exited" /\ fatalIn = "SAExists")

(***************************************************************************)
(* Properties of GetConfigMap                                              *)
(***************************************************************************)
\* C11: every invocation of GetConfigMap, the second and later ones in one
\* process included, ends by returning the config map's data or an error;
\* nothing an earlier call left changes how a later call ends.  (Stated for
\* a command line that flag.Parse accepts.)
C11_GetConfigMapReturns ==
  (env.op = "GetConfigMap" /\ env.parseOk) =>
    /\ pc = "idle"
    /\ ret.op = "GetConfigMap"
    /\ (ret.err = Nil) # (ret.Data = "nil")

(***************************************************************************)
(* Where the process can end                                               *)
(***************************************************************************)
Terminated == pc \in {"exited", "panicked"}

\* C12 (as claimed): process termination is reachable only from WatchPod
\* and from the service-account existence check; every other operation
\* returns its failures or re-prompts.
C12_OnlyWatcherAndSATerminate ==
  Terminated => (fatalIn \in {"WatchPod", "SAExists"})

\* C12 (amended): the process ends only in WatchPod, in SAExists (also under
\* ValidSA), in podExists (also under ValidNs, when the client or the pod
\* list fails), in ValidNs itself (invalid mode, failed namespace existence
\* check) and in GetConfigMap (flag registration and parsing).  NsExists,
\* CheckSAPermissions and ApplyYaml never end it, and inside ValidNs a
\* rejection or a failed permission probe never does.
C12_TerminationSites ==
  Terminated =>
    \/ env.op = "WatchPod" /\ fatalIn = "WatchPod"
    \/ env.op \in {"SAExists", "ValidSA"} /\ fatalIn = "SAExists"
    \/ env.op = "podExists" /\ fatalIn = "podExists"
    \/ /\ env.op = "ValidNs"
       /\ fatalIn = "podExists"
       /\ vns.asked = "pod"
       /\ vns.Items = <<>>
    \/ /\ env.op = "ValidNs"
       /\ fatalIn = "ValidNs"
       /\ \/ vns.mode \notin {"namespace", "cluster"} /\ vns.asked = "none"
          \/ vns.asked = "ns" /\ vns.err # Nil
    \/ env.op = "GetConfigMap" /\ fatalIn = "GetConfigMap"

\* the pod list inside ValidNs failed and the process ended in podExists
C12_Witness ==
  /\ pc = "exited"
  /\ env.op = "ValidNs"
  /\ fatalIn = "podExists"
  /\ vns.asked = "pod"

(***************************************************************************)
(* The retry loop of ValidNs                                               *)
(***************************************************************************)
InValidNs ==
  pc \in {"ValidNs_start", "ValidNs_NsExists", "ValidNs_podExists",
          "ValidNs_CheckSAPermissions"}

\* the pod list of the cycle came back, and empty
ListedNoPod(v) == v.asked = "pod" /\ v.listErr = Nil /\ v.Items = <<>>

\* C13: ValidNs has no bound on the number of rejected cycles: at start: the
\* prompt is always possible, and the call ends only by returning an accepted
\* namespace or by process termination.  A cycle whose answers accept the
\* entered namespace returns that namespace; every cycle comes to its end
\* (return, termination or start: again), so an accepted name is eventually
\* returned, and while every name is rejected the call does not return.
C13_RetryUntilAccepted ==
  /\ [](pc = "ValidNs_start" => ENABLED ValidNs_Prompt)
  /\ [][(pc = "ValidNs_podExists" /\ ListedNoPod(vns'))
          => (pc' = "idle" /\ ret' = [op |-> "ValidNs", namespace |-> vns.namespace,
                                      nsExists |-> TRUE])]_vars
  /\ [][(pc = "ValidNs_CheckSAPermissions" /\ ProbeAllowed(vns'))
          => (pc' = "idle" /\ ret' = [op |-> "ValidNs", namespace |-> vns.namespace,
                                      nsExists |-> FALSE])]_vars
  /\ [][(InValidNs /\ ~InValidNs')
          => \/ pc' = "exited"
             \/ /\ pc' = "idle"
                /\ ret'.op = "ValidNs"
                /\ ListedNoPod(vns') \/ ProbeAllowed(vns')]_vars
  /\ (pc = "ValidNs_start") ~> (pc = "ValidNs_NsExists" \/ pc = "exited")
  /\ (pc = "ValidNs_NsExists")
       ~> (pc \in {"ValidNs_start", "idle", "exited"})

\* after MaxRejects rejected cycles a name was accepted and returned
C13_Witness ==
  /\ Returned
  /\ vns.rejects = MaxRejects
  /\ ret.namespace = vns.namespace

\* the namespace existence check of the cycle failed: the client could not
\* be built, or the lookup failed otherwise than by not-found
NsCheckFailed(v) ==
  v.asked = "ns" /\ (v.nsClientErr # Nil \/ v.get.err \in ApiErrs)

\* C14: when the namespace existence check inside ValidNs returns an error,
\* ValidNs terminates the process in that same cycle: no further prompt, no
\* pod or permission query afterwards, no namespace returned.
C14_NsCheckErrorIsFatal ==
  /\ [][(pc = "ValidNs_NsExists" /\ NsCheckFailed(vns'))
          => (pc' = "exited" /\ fatalIn' = "ValidNs" /\ ret' = NoRet)]_vars
  /\ [][pc # "exited"]_vars
  /\ []((env.op = "ValidNs" /\ NsCheckFailed(vns)) => (pc = "exited" /\ ret = NoRet))

\* after a rejected cycle the existence check failed and the process ended
C14_Witness ==
  /\ pc = "exited"
  /\ fatalIn = "ValidNs"
  /\ NsCheckFailed(vns)
  /\ vns.err # Nil
  /\ vns.rejects >= 1

(***************************************************************************)
(* Properties of ApplyYaml's fetch                                         *)
(***************************************************************************)
\* the endpoint answered the GET with an error status
ErrorResponse(resp) == resp.status >= 400

\* the fetch of a non-local call failed: no response, an unreadable body,
\* or an error response
FetchFailed(a) ==
  \/ a.fetch \in {"NewRequest", "Do", "ReadAll"}
  \/ a.fetch = "ok" /\ ErrorResponse(a.resp)

\* C15: in a non-local ApplyYaml call the apply mechanism is invoked only
\* after a successful fetch and a completed cache-file write; when the fetch
\* fails (request construction, transport, error response from the endpoint,
\* body read) or the cache write fails, ApplyYaml returns that error with
\* empty output and never invokes the apply mechanism.
C15_FetchFailureAborts ==
  (ay.op = "ApplyYaml" /\ ~ay.isLocal) =>
    /\ ay.invoked => (ay.fetch = "ok" /\ ~ErrorResponse(ay.resp) /\ ay.written)
    /\ FetchFailed(ay) =>
         /\ pc = "idle"
         /\ ret.op = "ApplyYaml" /\ ret.output = <<>> /\ ret.err # Nil
         /\ ~ay.written
         /\ ~ay.invoked
    /\ (ret.op = "ApplyYaml" /\ ret.err # Nil /\ ret.err.kind = "WriteFile") =>
         (ret.output = <<>> /\ ~ay.invoked)

(***************************************************************************)
(* Properties of WatchPod's loop body                                      *)
(***************************************************************************)
\* what WatchPod did with the i-th event it consumed, read off the state
OutcomeAt(i) ==
  IF i < Len(wp.events) THEN "next"
  ELSE IF pc = "exited" /\ fatalIn = "WatchPod" THEN "fatal"
  ELSE IF wp.stream = "stopped" THEN "stop"
  ELSE "next"

\* C16: an event whose payload is not a pod terminates the process at the
\* moment it is consumed (no Running event having been consumed before it):
\* it is never skipped and never counted as success.
C16_NonPodEventIsFatal ==
  \A i \in 1..Len(wp.events) :
    ~wp.events[i].isPod =>
      /\ i = Len(wp.events)
      /\ pc = "exited"
      /\ fatalIn = "WatchPod"
      /\ ret = NoRet
      /\ wp.stream = "open"
      /\ \A j \in 1..(i - 1) : ~RunningAt(j)

\* pod events not in phase Running were passed over, then a payload that is
\* not a pod ended the process
C16_Witness ==
  /\ Len(wp.events) >= 2
  /\ wp.events[1].isPod
  /\ ~wp.events[Len(wp.events)].isPod
  /\ pc = "exited"
  /\ fatalIn = "WatchPod"

\* two events agree on what WatchPod inspects
SamePair(e1, e2) == e1.isPod = e2.isPod /\ e1.Phase = e2.Phase

\* C17: WatchPod's outcome depends only on the (payload-is-a-pod, phase)
\* pairs of the events consumed: an event of another type with the same pair
\* in the place of a consumed event leads to the same outcome at that event,
\* and a pod event of any type in phase Running ends the watch as success.
C17_OutcomeByPairOnly ==
  \A i \in 1..Len(wp.events) :
    /\ \A other \in WatchEvents :
         SamePair(wp.events[i], other) => WatchPod_Outcome(other) = OutcomeAt(i)
    /\ RunningAt(i) =>
         /\ OutcomeAt(i) = "stop"
         /\ pc = "idle"
         /\ ret = [op |-> "WatchPod"]

\* a DELETED event in phase Running ended the watch as success, after an
\* event of another type
C17_Witness ==
  /\ Len(wp.events) >= 2
  /\ wp.events[Len(wp.events)].Type = "DELETED"
  /\ wp.events[Len(wp.events)].Phase = "Running"
  /\ wp.events[1].Type = "MODIFIED"
  /\ wp.stream = "stopped"
  /\ pc = "idle"
  /\ ret = [op |-> "WatchPod"]

(***************************************************************************)
(* Properties of the prompts' defaults                                     *)
(***************************************************************************)
\* the current cycle of ValidNs has read its input
Prompted == env.op = "ValidNs" /\ vns.namespace # ""

C19_ModesAgree ==
  (env.op = "ValidNs" /\ vns.mode \in {"namespace", "cluster"}) =>
    /\ twin # NoTwin
    /\ twin.pc = pc
    /\ twin.fatalIn = fatalIn
    /\ twin.ret = ret
    /\ twin.vns = [vns EXCEPT !.mode = OtherMode(vns.mode)]
    /\ (vns.mode = "namespace" /\ NsAnsweredFalse(vns) /\ ProbeAllowed(vns)) =>
         /\ Returned
         /\ ret.namespace = vns.namespace
         /\ ~ret.nsExists

\* in mode "namespace", after a rejected cycle, a namespace that does not
\* exist was returned with existed = false, as in mode "cluster"
C19_Witness ==
  /\ Returned
  /\ vns.mode = "namespace"
  /\ vns.rejects >= 1
  /\ NsAnsweredFalse(vns)
  /\ ProbeAllowed(vns)
  /\ ~ret.nsExists
  /\ twin.vns.mode = "cluster"
  /\ twin.ret = ret

(***************************************************************************)
(* A failing permission probe                                              *)
(***************************************************************************)
\* the create/namespace probe of the cycle failed with an error: the client
\* could not be built, or the access review could not be created
ProbeFailed(v) ==
  v.asked = "perm" /\ (v.probeClientErr # Nil \/ v.review.err # Nil)

\* the probe of the cycle answered, and with not allowed
ProbeDenied(v) ==
  v.asked = "perm" /\ v.probeClientErr = Nil /\ v.review.err = Nil
    /\ ~v.review.Allowed

\* C20: a permission probe that fails with an error inside ValidNs is
\* treated exactly like a denial: the error is neither surfaced nor fatal,
\* the namespace is rejected and a new prompt cycle starts; a nonexistent
\* namespace is never accepted on a failed probe.
C20_ProbeErrorIsDenial ==
  /\ [][(pc = "ValidNs_CheckSAPermissions"
           /\ (ProbeFailed(vns') \/ ProbeDenied(vns')))
          => /\ pc' = "ValidNs_start"
             /\ fatalIn' = fatalIn
             /\ ret' = NoRet
             /\ vns'.lastReject = "perm"
             /\ vns'.val = FALSE
             /\ vns'.namespace = vns.namespace]_vars
  /\ []((env.op = "ValidNs" /\ ProbeFailed(vns)) =>
          (pc = "ValidNs_start" /\ ret = NoRet /\ fatalIn = ""))

\* the probe failed for want of a client, and ValidNs is back at its prompt
C20_Witness ==
  /\ pc = "ValidNs_start"
  /\ ProbeFailed(vns)
  /\ vns.probeClientErr # Nil
  /\ vns.lastReject = "perm"
  /\ vns.rejects >= 2
  /\ ret = NoRet

====
